---- MODULE Spec2Model ----
(***************************************************************************)
(* The queue worker of farmhand: packages/queue/src/runner.rs.             *)
(*                                                                         *)
(* run_worker polls the queue, dispatches every pulled job to handle_job   *)
(* with bounded concurrency, and acknowledges each job with delete_job or  *)
(* fail_job.  handle_job drives the two chained video stages.  Every       *)
(* `.await` of the source is one step of the model, and so is each         *)
(* blocking capability call (transcoding, archive writing).                *)
(*                                                                         *)
(* The Queue trait object (pull, push, delete_job, fail_job) and the       *)
(* videos table are used by runner.rs but implemented elsewhere; they are  *)
(* modelled from their documented contract.                                *)
(***************************************************************************)
EXTENDS Integers, Sequences, FiniteSets, TLC

\* ------------------------------------------------------------------ bounds
\* how many jobs are ever pushed
MaxJobs == 2
\* the last tick of the clock
MaxTime == 2
\* clock ticks per day: the resolution of the model's clock
TicksPerDay == 1
\* the largest `concurrency` a worker is started with
MaxConcurrency == 2

\* the worker processes sharing the queue, and the videos
Runners == {"worker1", "worker2"}
VideoIds == {"video1"}
JobIds == 1..MaxJobs

\* chrono::Duration::days(n)
days(n) == n * TicksPerDay

\* ---------------------------------------------------------------- helpers
Min(a, b) == IF a <= b THEN a ELSE b

\* Option<T> as a set with at most one element
None == {}
Some(x) == {x}

RECURSIVE SortedSeq(_)
SortedSeq(S) ==
    IF S = {} THEN <<>>
    ELSE LET m == CHOOSE x \in S : \A y \in S : x <= y
         IN <<m>> \o SortedSeq(S \ {m})

Last(seq) == seq[Len(seq)]

Restrict(f, S) == IF S = {} THEN <<>> ELSE [x \in S |-> f[x]]

VARIABLES
    concurrency,\* run_worker's `concurrency` argument
    now,        \* the wall clock (chrono::Utc::now, SQL NOW())
    jobs,       \* the job table: id -> row
    next_id,    \* the next job id push assigns
    videos,     \* the videos table: video_id -> row
    raw_file,   \* the filesystem: whether the video's raw file exists
    rpc,        \* each runner's position in run_worker's loop
    batch,      \* each runner's pulled jobs not yet dispatched
    tasks,      \* each runner's in-flight dispatches: job id -> task
    trace       \* history: per job id, the calls made for it

vars == <<concurrency, now, jobs, next_id, videos, raw_file, rpc, batch, tasks, trace>>

\* ------------------------------------------------------------ Message
ProcessRawVideoIntoStream == "ProcessRawVideoIntoStream"
CompressRawVideo == "CompressRawVideo"
\* any variant of Message that handle_job's match does not name
OtherMessage == "Other"

\* ------------------------------------------------------------ the Queue
\* mutant: pull ignores scheduled_time
Eligible_ignoring_schedule(j) == jobs[j].status = "Queued"

\* mutant: pull also takes jobs that are in Processing
Eligible_reclaiming(j) ==
    /\ jobs[j].status \in {"Queued", "Processing"}
    /\ \A t \in jobs[j].scheduled_time : t <= now

\* the visibility predicate of pull
Eligible(j) ==
    /\ jobs[j].status = "Queued"
    /\ \A t \in jobs[j].scheduled_time : t <= now

EligibleIds == {j \in DOMAIN jobs : Eligible(j)}

\* Queue::pull(limit): the sets of jobs one call may claim
pull(limit) ==
    {S \in SUBSET EligibleIds :
        Cardinality(S) = Min(limit, Cardinality(EligibleIds))}

\* mutant: pull returns the jobs and leaves them Queued
claim_without_status_change(S) == jobs

\* the job table after pull claimed S
claim(S) ==
    [j \in DOMAIN jobs |->
        IF j \in S THEN [jobs[j] EXCEPT !.status = "Processing"] ELSE jobs[j]]

\* Queue::push(message, status, scheduled_time): the job table afterwards
push(message, video_id, status, scheduled_time) ==
    [j \in DOMAIN jobs \cup {next_id} |->
        IF j = next_id
        THEN [message |-> message, video_id |-> video_id, status |-> status,
              scheduled_time |-> scheduled_time]
        ELSE jobs[j]]

\* a job table without the row of id, if it has one
delete_from(table, id) == Restrict(table, DOMAIN table \ {id})

\* Queue::delete_job(id): the job table afterwards
delete_job(id) == delete_from(jobs, id)

\* Queue::fail_job(id): the job table afterwards
fail_job(id) ==
    [j \in DOMAIN jobs |->
        IF j = id THEN [jobs[j] EXCEPT !.status = "Failed"] ELSE jobs[j]]

\* --------------------------------------------------------- the videos table
NULL == "NULL"

\* UPDATE videos SET <fields> WHERE id = video_id: no row, no change
update_video(video_id, row) ==
    [v \in DOMAIN videos |-> IF v = video_id THEN row ELSE videos[v]]

\* SELECT * FROM videos WHERE id = video_id, fetch_one into db::Video: fails
\* without a row, and on a NULL raw_video_path (the field is read as a path
\* at lines 99 and 164, so it is not an Option)
can_fetch(video_id) ==
    /\ video_id \in DOMAIN videos
    /\ videos[video_id].raw_video_path # NULL

\* ------------------------------------------------------------------- Init
NewVideo ==
    [raw_video_path |-> "raw", processing_status |-> "none",
     processed_video_path |-> NULL, compression_status |-> "none",
     compressed_video_path |-> NULL]

Init ==
    /\ concurrency \in 1..MaxConcurrency
    /\ now = 0
    /\ jobs = <<>>
    /\ next_id = 1
    /\ \E rows \in SUBSET VideoIds : videos = [v \in rows |-> NewVideo]
    /\ raw_file = [v \in VideoIds |-> v \in DOMAIN videos]
    /\ rpc = [r \in Runners |-> "pull"]
    /\ batch = [r \in Runners |-> <<>>]
    /\ tasks = [r \in Runners |-> <<>>]
    /\ trace = [j \in JobIds |-> <<>>]

\* --------------------------------------------------------- the environment
\* the clock advances; only a job waiting for its scheduled time can tell, so
\* the model lets it advance only then
Waiting == {j \in DOMAIN jobs :
              jobs[j].status = "Queued" /\ \E t \in jobs[j].scheduled_time : t > now}

Tick ==
    /\ now < MaxTime
    /\ Waiting # {}
    /\ now' = now + 1
    /\ UNCHANGED <<concurrency, jobs, next_id, videos, raw_file, rpc, batch, tasks, trace>>

\* job ids still owed to stage-1 jobs that may yet chain a stage-2 job
Reserved ==
    Cardinality({j \in DOMAIN jobs :
        /\ jobs[j].message = ProcessRawVideoIntoStream
        /\ jobs[j].status \in {"Queued", "Processing"}})

\* the messages pushed from outside the runner
ExternalMessages == {ProcessRawVideoIntoStream, OtherMessage}

\* a caller outside the runner pushes a job
Enqueue ==
    \E m \in ExternalMessages, v \in VideoIds,
       at \in {None, Some(now + days(1))} :
        /\ (next_id - 1) + Reserved
             + (IF m = ProcessRawVideoIntoStream THEN 2 ELSE 1) <= MaxJobs
        /\ jobs' = push(m, v, "Queued", at)
        /\ next_id' = next_id + 1
        /\ UNCHANGED <<concurrency, now, videos, raw_file, rpc, batch, tasks, trace>>

\* ------------------------------------------------------------- run_worker
Log(j, event) == [trace EXCEPT ![j] = Append(@, event)]

\* the Job values of a pulled set, in id order
JobsOf(S) ==
    LET ids == SortedSeq(S)
    IN [i \in 1..Len(ids) |->
          [id |-> ids[i], message |-> jobs[ids[i]].message,
           video_id |-> jobs[ids[i]].video_id]]

RECURSIVE LogAll(_, _, _)
LogAll(t, S, event) ==
    IF S = {} THEN t
    ELSE LET j == CHOOSE x \in S : TRUE
         IN LogAll([t EXCEPT ![j] = Append(@, event)], S \ {j}, event)

\* mutant: pull is asked for one job more than `concurrency`
run_worker_pull_ok_over_limit(r) ==
    /\ rpc[r] = "pull"
    /\ \E S \in pull(concurrency + 1) :
        /\ jobs' = claim(S)
        /\ batch' = [batch EXCEPT ![r] = JobsOf(S)]
        /\ trace' = LogAll(trace, S, "pull")
    /\ rpc' = [rpc EXCEPT ![r] = "dispatch"]
    /\ UNCHANGED <<concurrency, now, next_id, videos, raw_file, tasks>>

\* line 19, Ok arm: queue.pull(concurrency) returned jobs
run_worker_pull_ok(r) ==
    /\ rpc[r] = "pull"
    /\ \E S \in pull(concurrency) :
        /\ jobs' = claim(S)
        /\ batch' = [batch EXCEPT ![r] = JobsOf(S)]
        /\ trace' = LogAll(trace, S, "pull")
    /\ rpc' = [rpc EXCEPT ![r] = "dispatch"]
    /\ UNCHANGED <<concurrency, now, next_id, videos, raw_file, tasks>>

\* mutant: the pull error ends run_worker
run_worker_pull_err_exits(r) ==
    /\ rpc[r] = "pull"
    /\ rpc' = [rpc EXCEPT ![r] = "exited"]
    /\ UNCHANGED <<concurrency, now, jobs, next_id, videos, raw_file, batch, tasks, trace>>

\* lines 21-25, Err arm: log, sleep 500ms, Vec::new()
run_worker_pull_err(r) ==
    /\ rpc[r] = "pull"
    /\ rpc' = [rpc EXCEPT ![r] = "backoff"]
    /\ batch' = [batch EXCEPT ![r] = <<>>]
    /\ UNCHANGED <<concurrency, now, jobs, next_id, videos, raw_file, tasks, trace>>

\* lines 23-53 after a pull error: the 500ms sleep ends, for_each_concurrent
\* finds the empty Vec exhausted, the 125ms sleep, and the loop starts over
run_worker_backoff(r) ==
    /\ rpc[r] = "backoff"
    /\ rpc' = [rpc EXCEPT ![r] = "pull"]
    /\ UNCHANGED <<concurrency, now, jobs, next_id, videos, raw_file, batch, tasks, trace>>

\* the history's event for a handle_job call
Handle(message) == "handle_job " \o message

\* a task whose handle_job call has returned, and what it returned
Returned == {"returned_Ok", "returned_Err"}
ResultOf(pc) == IF pc = "returned_Ok" THEN "Ok" ELSE "Err"

\* mutant: the default arm returns an error
handle_job_entry_rejecting_unknown(message) ==
    CASE message = ProcessRawVideoIntoStream -> "s1_mark"
      [] message = CompressRawVideo -> "s2_mark"
      [] OTHER -> "returned_Err"

\* handle_job's match on job.message (lines 59-60, 133, 244): where it starts
handle_job_entry(message) ==
    CASE message = ProcessRawVideoIntoStream -> "s1_mark"
      [] message = CompressRawVideo -> "s2_mark"
      [] OTHER -> "returned_Ok"

\* mutant: for_each_concurrent is given one slot less
fan_out_one_less == concurrency - 1

\* how many dispatches for_each_concurrent keeps in flight (line 34)
fan_out == concurrency

\* lines 33-38: for_each_concurrent takes the next job and calls handle_job
run_worker_dispatch(r) ==
    /\ rpc[r] = "dispatch"
    /\ batch[r] # <<>>
    /\ Cardinality(DOMAIN tasks[r]) < fan_out
    /\ LET job == Head(batch[r])
           pc == handle_job_entry(job.message)
       IN /\ tasks' = [tasks EXCEPT ![r] =
                [j \in DOMAIN tasks[r] \cup {job.id} |->
                    IF j = job.id
                    THEN [pc |-> pc, message |-> job.message, video_id |-> job.video_id]
                    ELSE tasks[r][j]]]
          /\ trace' = [trace EXCEPT ![job.id] =
                IF pc \in Returned THEN @ \o <<Handle(job.message), ResultOf(pc)>>
                ELSE Append(@, Handle(job.message))]
    /\ batch' = [batch EXCEPT ![r] = Tail(@)]
    /\ UNCHANGED <<concurrency, now, jobs, next_id, videos, raw_file, rpc>>

\* ------------------------------------------------------------- handle_job
At(r, j, pc) == j \in DOMAIN tasks[r] /\ tasks[r][j].pc = pc

Goto(r, j, pc) ==
    /\ tasks' = [tasks EXCEPT ![r][j].pc = pc]
    /\ UNCHANGED trace

\* handle_job returns Ok(()) (line 247) or an Err (a `?`, line 240)
Return(r, j, result) ==
    /\ tasks' = [tasks EXCEPT ![r][j].pc = "returned_" \o result]
    /\ trace' = Log(j, result)

\* lines 64-69: UPDATE videos SET processing_status = 'processing'
s1_mark(r, j) ==
    /\ At(r, j, "s1_mark")
    /\ LET v == tasks[r][j].video_id
       IN \/ /\ videos' = IF v \in DOMAIN videos
                          THEN update_video(v, [videos[v] EXCEPT !.processing_status = "processing"])
                          ELSE videos
             /\ Goto(r, j, "s1_convert")
          \/ /\ UNCHANGED videos
             /\ Return(r, j, "Err")
    /\ UNCHANGED <<concurrency, now, jobs, next_id, raw_file, rpc, batch>>

\* mutant: a failure puts processing_status back before returning
s1_convert_rolling_back(r, j) ==
    /\ At(r, j, "s1_convert")
    /\ LET v == tasks[r][j].video_id
       IN \/ /\ can_fetch(v)
             /\ raw_file[v]
             /\ UNCHANGED videos
             /\ Goto(r, j, "s1_complete")
          \/ /\ videos' = IF v \in DOMAIN videos
                          THEN update_video(v, [videos[v] EXCEPT !.processing_status = "none"])
                          ELSE videos
             /\ Return(r, j, "Err")
    /\ UNCHANGED <<concurrency, now, jobs, next_id, raw_file, rpc, batch>>

\* lines 72-100: SELECT the video row; then, with no await in between,
\* HLSConverter::new and convert_to_hls on the raw file
s1_convert(r, j) ==
    /\ At(r, j, "s1_convert")
    /\ \/ /\ can_fetch(tasks[r][j].video_id)
          /\ raw_file[tasks[r][j].video_id]
          /\ Goto(r, j, "s1_complete")
       \/ Return(r, j, "Err")
    /\ UNCHANGED <<concurrency, now, jobs, next_id, videos, raw_file, rpc, batch>>

\* mutant: the UPDATE's error is dropped and the handler goes on to push
s1_complete_ignoring_error(r, j) ==
    /\ At(r, j, "s1_complete")
    /\ UNCHANGED videos
    /\ Goto(r, j, "s1_push")
    /\ UNCHANGED <<concurrency, now, jobs, next_id, raw_file, rpc, batch>>

\* lines 103-114: UPDATE videos SET processing_status = 'completed', ...
s1_complete(r, j) ==
    /\ At(r, j, "s1_complete")
    /\ LET v == tasks[r][j].video_id
       IN \/ /\ videos' = IF v \in DOMAIN videos
                          THEN update_video(v, [videos[v] EXCEPT
                                  !.processing_status = "completed",
                                  !.processed_video_path = "master.m3u8"])
                          ELSE videos
             /\ Goto(r, j, "s1_push")
          \/ /\ UNCHANGED videos
             /\ Return(r, j, "Err")
    /\ UNCHANGED <<concurrency, now, jobs, next_id, raw_file, rpc, batch>>

\* mutant: the chained job is visible at once
compress_scheduled_now == Some(now)

\* line 117: when the chained job becomes visible
compress_scheduled_time == Some(now + days(1))

\* lines 116-126: queue.push(CompressRawVideo { video_id }, Queued, Some(scheduled_time))
s1_push(r, j) ==
    /\ At(r, j, "s1_push")
    /\ \/ /\ next_id <= MaxJobs
          /\ jobs' = push(CompressRawVideo, tasks[r][j].video_id, "Queued",
                          compress_scheduled_time)
          /\ next_id' = next_id + 1
          /\ Return(r, j, "Ok")
       \/ /\ UNCHANGED <<jobs, next_id>>
          /\ Return(r, j, "Err")
    /\ UNCHANGED <<concurrency, now, videos, raw_file, rpc, batch>>

\* lines 137-142: UPDATE videos SET compression_status = 'compressing'
s2_mark(r, j) ==
    /\ At(r, j, "s2_mark")
    /\ LET v == tasks[r][j].video_id
       IN \/ /\ videos' = IF v \in DOMAIN videos
                          THEN update_video(v, [videos[v] EXCEPT !.compression_status = "compressing"])
                          ELSE videos
             /\ Goto(r, j, "s2_fetch")
          \/ /\ UNCHANGED videos
             /\ Return(r, j, "Err")
    /\ UNCHANGED <<concurrency, now, jobs, next_id, raw_file, rpc, batch>>

\* lines 147-150: SELECT the video row, inside the compression block
s2_fetch(r, j) ==
    /\ At(r, j, "s2_fetch")
    /\ \/ /\ can_fetch(tasks[r][j].video_id)
          /\ Goto(r, j, "s2_archive")
       \/ Goto(r, j, "s2_write_failed")
    /\ UNCHANGED <<concurrency, now, jobs, next_id, videos, raw_file, rpc, batch>>

\* lines 153-198: create the directory and raw.zip, stream the raw file into
\* the archive, finish it
s2_archive(r, j) ==
    /\ At(r, j, "s2_archive")
    /\ \/ /\ raw_file[tasks[r][j].video_id]
          /\ Goto(r, j, "s2_remove")
       \/ Goto(r, j, "s2_write_failed")
    /\ UNCHANGED <<concurrency, now, jobs, next_id, videos, raw_file, rpc, batch>>

\* lines 201-205: tokio::fs::remove_file(&raw_video_path)
s2_remove(r, j) ==
    /\ At(r, j, "s2_remove")
    /\ LET v == tasks[r][j].video_id
       IN \/ /\ raw_file[v]
             /\ raw_file' = [raw_file EXCEPT ![v] = FALSE]
             /\ Goto(r, j, "s2_write_completed")
          \/ /\ UNCHANGED raw_file
             /\ Goto(r, j, "s2_write_failed")
    /\ UNCHANGED <<concurrency, now, jobs, next_id, videos, rpc, batch>>

\* lines 210-226: UPDATE videos SET compression_status = 'completed',
\* compressed_video_path = $1, raw_video_path = NULL
s2_write_completed(r, j) ==
    /\ At(r, j, "s2_write_completed")
    /\ LET v == tasks[r][j].video_id
       IN \/ /\ videos' = IF v \in DOMAIN videos
                          THEN update_video(v, [videos[v] EXCEPT
                                  !.compression_status = "completed",
                                  !.compressed_video_path = "raw.zip",
                                  !.raw_video_path = NULL])
                          ELSE videos
             /\ Return(r, j, "Ok")
          \/ /\ UNCHANGED videos
             /\ Return(r, j, "Err")
    /\ UNCHANGED <<concurrency, now, jobs, next_id, raw_file, rpc, batch>>

\* lines 227-241: UPDATE videos SET compression_status = 'failed'; return Err(err)
s2_write_failed(r, j) ==
    /\ At(r, j, "s2_write_failed")
    /\ LET v == tasks[r][j].video_id
       IN \/ videos' = IF v \in DOMAIN videos
                       THEN update_video(v, [videos[v] EXCEPT !.compression_status = "failed"])
                       ELSE videos
          \/ UNCHANGED videos
    /\ Return(r, j, "Err")
    /\ UNCHANGED <<concurrency, now, jobs, next_id, raw_file, rpc, batch>>

handle_job(r, j) ==
    \/ s1_mark(r, j)
    \/ s1_convert(r, j)
    \/ s1_complete(r, j)
    \/ s1_push(r, j)
    \/ s2_mark(r, j)
    \/ s2_fetch(r, j)
    \/ s2_archive(r, j)
    \/ s2_remove(r, j)
    \/ s2_write_completed(r, j)
    \/ s2_write_failed(r, j)

\* ------------------------------------------- run_worker: acknowledgment
\* mutant: both arms of the match call delete_job
ack_call_always_delete(result) == "delete_job"

\* lines 38-44: which Queue call follows handle_job's result
ack_call(result) == IF result = "Ok" THEN "delete_job" ELSE "fail_job"

\* mutant: the Err arm puts the job back in the queue
ack_effect_requeue(call, id) ==
    IF call = "delete_job" THEN delete_job(id)
    ELSE [j \in DOMAIN jobs |->
            IF j = id THEN [jobs[j] EXCEPT !.status = "Queued"] ELSE jobs[j]]

\* lines 39 and 42: the job table after the acknowledgment call took effect
ack_effect(call, id) == IF call = "delete_job" THEN delete_job(id) ELSE fail_job(id)

\* mutant: an acknowledgment error abandons the rest of the batch
run_worker_ack_aborting(r, j) ==
    /\ j \in DOMAIN tasks[r]
    /\ tasks[r][j].pc \in Returned
    /\ LET call == ack_call(ResultOf(tasks[r][j].pc))
       IN \/ /\ jobs' = ack_effect(call, j)
             /\ trace' = Log(j, call)
             /\ tasks' = [tasks EXCEPT ![r] = Restrict(@, DOMAIN @ \ {j})]
             /\ UNCHANGED batch
          \/ /\ UNCHANGED jobs
             /\ trace' = Log(j, call \o "_failed")
             /\ tasks' = [tasks EXCEPT ![r] = <<>>]
             /\ batch' = [batch EXCEPT ![r] = <<>>]
    /\ UNCHANGED <<concurrency, now, next_id, videos, raw_file, rpc>>

\* mutant: an acknowledgment that finds no row for its id ends run_worker
run_worker_ack_fatal(r, j) ==
    /\ j \in DOMAIN tasks[r]
    /\ tasks[r][j].pc \in Returned
    /\ LET call == ack_call(ResultOf(tasks[r][j].pc))
       IN \/ /\ jobs' = ack_effect(call, j)
             /\ trace' = Log(j, call)
          \/ /\ UNCHANGED jobs
             /\ trace' = Log(j, call \o "_failed")
    /\ tasks' = [tasks EXCEPT ![r] = Restrict(@, DOMAIN @ \ {j})]
    /\ rpc' = IF j \in DOMAIN jobs THEN rpc ELSE [rpc EXCEPT ![r] = "exited"]
    /\ UNCHANGED <<concurrency, now, next_id, videos, raw_file, batch>>

\* mutant: the acknowledgment does not wait for handle_job's result
run_worker_ack_early(r, j) ==
    /\ j \in DOMAIN tasks[r]
    /\ LET call == ack_call(ResultOf(tasks[r][j].pc))
       IN \/ /\ jobs' = ack_effect(call, j)
             /\ trace' = Log(j, call)
          \/ /\ UNCHANGED jobs
             /\ trace' = Log(j, call \o "_failed")
    /\ tasks' = [tasks EXCEPT ![r] = Restrict(@, DOMAIN @ \ {j})]
    /\ UNCHANGED <<concurrency, now, next_id, videos, raw_file, rpc, batch>>

\* lines 38-48: the acknowledgment call; its own error is only logged
run_worker_ack(r, j) ==
    /\ j \in DOMAIN tasks[r]
    /\ tasks[r][j].pc \in Returned
    /\ LET call == ack_call(ResultOf(tasks[r][j].pc))
       IN \/ /\ jobs' = ack_effect(call, j)
             /\ trace' = Log(j, call)
          \/ /\ UNCHANGED jobs
             /\ trace' = Log(j, call \o "_failed")
    /\ tasks' = [tasks EXCEPT ![r] = Restrict(@, DOMAIN @ \ {j})]
    /\ UNCHANGED <<concurrency, now, next_id, videos, raw_file, rpc, batch>>

\* mutant: the loop goes on to the next pull once the batch is handed out,
\* with dispatches still in flight
run_worker_sleep_refilling(r) ==
    /\ rpc[r] = "dispatch"
    /\ batch[r] = <<>>
    /\ rpc' = [rpc EXCEPT ![r] = "pull"]
    /\ UNCHANGED <<concurrency, now, jobs, next_id, videos, raw_file, batch, tasks, trace>>

\* lines 50-53, 17: every dispatch of the batch is over; the 125ms sleep, and
\* the loop starts over
run_worker_sleep(r) ==
    /\ rpc[r] = "dispatch"
    /\ batch[r] = <<>>
    /\ DOMAIN tasks[r] = {}
    /\ rpc' = [rpc EXCEPT ![r] = "pull"]
    /\ UNCHANGED <<concurrency, now, jobs, next_id, videos, raw_file, batch, tasks, trace>>

run_worker(r) ==
    \/ run_worker_pull_ok(r)
    \/ run_worker_pull_err(r)
    \/ run_worker_backoff(r)
    \/ run_worker_dispatch(r)
    \/ \E j \in JobIds : handle_job(r, j)
    \/ \E j \in JobIds : run_worker_ack(r, j)
    \/ run_worker_sleep(r)

Next ==
    \/ Tick
    \/ Enqueue
    \/ \E r \in Runners : run_worker(r)

Spec == Init /\ [][Next]_vars

\* ------------------------------------- a queue with other acknowledging callers
\* another caller of the Queue calls delete_job on a job some runner is
\* working on
ExternalDelete ==
    \E id \in DOMAIN jobs :
        /\ jobs[id].status = "Processing"
        /\ jobs' = delete_job(id)
        /\ UNCHANGED <<concurrency, now, next_id, videos, raw_file, rpc, batch, tasks, trace>>

NextWithExternalDelete ==
    \/ Next
    \/ ExternalDelete

\* the runners next to callers that delete jobs on their own, so that a
\* runner's acknowledgment can meet an id without a row
SpecExternalDelete == Init /\ [][NextWithExternalDelete]_vars

\* the ids of a sequence of jobs
Ids(seq) == {seq[i].id : i \in 1..Len(seq)}

\* the jobs a runner holds: pulled, and not yet acknowledged
Held(r) == Ids(batch[r]) \cup DOMAIN tasks[r]

\* ------------------------------------------------- runners that are stopped
\* the process of a runner that holds jobs ends abruptly, and a new one is
\* started in its place: run_worker begins again at line 17 with nothing in
\* hand; what the lost dispatches wrote so far stays written
Crash(r) ==
    /\ Held(r) # {}
    /\ rpc' = [rpc EXCEPT ![r] = "pull"]
    /\ batch' = [batch EXCEPT ![r] = <<>>]
    /\ tasks' = [tasks EXCEPT ![r] = <<>>]
    /\ UNCHANGED <<concurrency, now, jobs, next_id, videos, raw_file, trace>>

NextWithCrash ==
    \/ Next
    \/ \E r \in Runners : Crash(r)

SpecCrash == Init /\ [][NextWithCrash]_vars

\* --------------------------------- two compression jobs for one video
\* ProcessRawVideoIntoStream was pushed twice for a video, and both handlers
\* completed stage 1 on the same day: each chained a CompressRawVideo job
\* due a day later (lines 116-126), and both stage-1 jobs were deleted.  The
\* ids are counted from the two jobs that are left.
InitTwoCompressJobs ==
    /\ concurrency \in 1..MaxConcurrency
    /\ now = 0
    /\ jobs = [j \in 1..2 |->
                [message |-> CompressRawVideo, video_id |-> "video1",
                 status |-> "Queued", scheduled_time |-> Some(days(1))]]
    /\ next_id = 3
    /\ videos = [v \in VideoIds |->
                  [NewVideo EXCEPT !.processing_status = "completed",
                                   !.processed_video_path = "master.m3u8"]]
    /\ raw_file = [v \in VideoIds |-> TRUE]
    /\ rpc = [r \in Runners |-> "pull"]
    /\ batch = [r \in Runners |-> <<>>]
    /\ tasks = [r \in Runners |-> <<>>]
    /\ trace = [j \in JobIds |-> <<>>]

\* run_worker on a queue that holds CompressRawVideo jobs only
run_worker_stage2(r) ==
    \/ run_worker_pull_ok(r)
    \/ run_worker_pull_err(r)
    \/ run_worker_backoff(r)
    \/ run_worker_dispatch(r)
    \/ \E j \in JobIds :
            \/ s2_mark(r, j)
            \/ s2_fetch(r, j)
            \/ s2_archive(r, j)
            \/ s2_remove(r, j)
            \/ s2_write_completed(r, j)
            \/ s2_write_failed(r, j)
    \/ \E j \in JobIds : run_worker_ack(r, j)
    \/ run_worker_sleep(r)

NextTwoCompressJobs ==
    \/ Tick
    \/ \E r \in Runners : run_worker_stage2(r)

SpecTwoCompressJobs == InitTwoCompressJobs /\ [][NextTwoCompressJobs]_vars

\* ------------------------------------------------------ fair scheduling
\* lines 38-44 when the acknowledgment call succeeds
run_worker_ack_ok(r, j) ==
    /\ run_worker_ack(r, j)
    /\ Last(trace'[j]) \in {"delete_job", "fail_job"}

\* run_worker with a queue whose acknowledgment calls succeed
run_worker_acks_succeed(r) ==
    \/ run_worker_pull_ok(r)
    \/ run_worker_pull_err(r)
    \/ run_worker_backoff(r)
    \/ run_worker_dispatch(r)
    \/ \E j \in JobIds : handle_job(r, j)
    \/ \E j \in JobIds : run_worker_ack_ok(r, j)
    \/ run_worker_sleep(r)

NextAcksSucceed ==
    \/ Tick
    \/ Enqueue
    \/ \E r \in Runners : run_worker_acks_succeed(r)

\* every runner keeps being scheduled: its task is polled whenever it can
\* make a step, every call it awaits returns, and nothing stops the process
SpecFair ==
    /\ Init
    /\ [][NextAcksSucceed]_vars
    /\ \A r \in Runners : WF_vars(run_worker_acks_succeed(r))

\* ===================================================================
\* Properties
\* ===================================================================
Count(seq, e) == Cardinality({i \in 1..Len(seq) : seq[i] = e})


\* the step in which runner r's pull returns
PullStep(r) == rpc[r] = "pull" /\ rpc'[r] = "dispatch"

\* C1 (claim exclusivity): no job is ever returned by two pulls, no two
\* runners hold the same job, and every pull of size K = concurrency returns
\* exactly min(K, eligible) jobs, all of them eligible before the call and
\* held by nobody; so N pulls against M <= N*K eligible jobs return
\* min(M, N*K) distinct jobs between them.
C1_ClaimExclusivity ==
    /\ [](/\ \A j \in JobIds : Count(trace[j], "pull") <= 1
          /\ \A r1, r2 \in Runners : r1 # r2 => Held(r1) \cap Held(r2) = {})
    /\ [][\A r \in Runners : PullStep(r) =>
            LET got == Ids(batch'[r])
            IN /\ Cardinality(got) = Len(batch'[r])
               /\ got \subseteq EligibleIds
               /\ Cardinality(got) = Min(concurrency, Cardinality(EligibleIds))
               /\ \A r2 \in Runners : got \cap Held(r2) = {}]_vars

\* two callers each hold jobs they pulled, and between them the pulls took
\* every job there was
C1_Witness ==
    /\ \A r \in Runners : Held(r) # {}
    /\ \A j \in DOMAIN jobs : jobs[j].status = "Processing"
    /\ Cardinality(DOMAIN jobs) = 2

\* C2 (visibility delay): a pull never returns a job whose scheduled_time is
\* still ahead of the clock; a pull that returns fewer jobs than its limit left
\* behind no Queued job whose scheduled_time is absent or reached; so every
\* job in Processing has its scheduled_time behind it.
C2_VisibilityDelay ==
    /\ [](\A j \in DOMAIN jobs : jobs[j].status = "Processing" =>
              \A t \in jobs[j].scheduled_time : t <= now)
    /\ [][\A r \in Runners : PullStep(r) =>
            LET got == Ids(batch'[r])
            IN /\ \A j \in got : \A t \in jobs[j].scheduled_time : t <= now
               /\ Len(batch'[r]) < concurrency =>
                    \A j \in DOMAIN jobs :
                        (/\ jobs[j].status = "Queued"
                         /\ \A t \in jobs[j].scheduled_time : t <= now) => j \in got]_vars

\* a job pushed with a scheduled_time has been pulled, its time reached, and so
\* has a job pushed without one
C2_Witness ==
    \E j, k \in DOMAIN jobs :
        /\ jobs[j].scheduled_time # None
        /\ jobs[j].status = "Processing"
        /\ jobs[k].scheduled_time = None
        /\ jobs[k].status = "Processing"

Results == {"Ok", "Err"}
AckEvents(result) ==
    IF result = "Ok" THEN {"delete_job", "delete_job_failed"}
    ELSE {"fail_job", "fail_job_failed"}
AllAckEvents == AckEvents("Ok") \cup AckEvents("Err")

\* C3 (one acknowledgment per handled job): in every job's history a
\* handle_job result is followed at once by one acknowledgment call,
\* delete_job after Ok and fail_job after Err, or else that call is the next
\* step of the dispatch that holds the result; an acknowledgment call only
\* ever follows a result, and no job gets a second one.
C3_ExactlyOneAck ==
    \A j \in JobIds :
        LET t == trace[j]
        IN /\ \A i \in 1..Len(t) : t[i] \in Results =>
                 IF i < Len(t) THEN t[i + 1] \in AckEvents(t[i])
                 ELSE \E r \in Runners : At(r, j, "returned_" \o t[i])
           /\ \A i \in 1..Len(t) : t[i] \in AllAckEvents => i > 1 /\ t[i - 1] \in Results
           /\ Cardinality({i \in 1..Len(t) : t[i] \in AllAckEvents}) <= 1

\* one job was deleted after its handler succeeded, another failed after its
\* handler failed
C3_Witness ==
    \E j, k \in JobIds :
        /\ trace[j] = <<"pull", Handle(ProcessRawVideoIntoStream), "Ok", "delete_job">>
        /\ trace[k] = <<"pull", Handle(CompressRawVideo), "Err", "fail_job">>

\* C4 (a failed stage 2 leaves the source intact), as claimed: whenever a
\* CompressRawVideo handler has returned failure, the raw file still exists on
\* disk, raw_video_path is still set and no path field has been cleared.  (The
\* claim's last conjunct, compression_status = failed, is left out here: it
\* cannot hold when the failing step is itself a status write, and the loss of
\* the source is the part that matters.)
C4_FailedStage2LeavesSource ==
    \A r \in Runners : \A j \in DOMAIN tasks[r] :
        (tasks[r][j].message = CompressRawVideo /\ tasks[r][j].pc = "returned_Err") =>
            LET v == tasks[r][j].video_id
            IN /\ raw_file[v]
               /\ v \in DOMAIN videos
               /\ videos[v].raw_video_path # NULL
               /\ videos[v].processed_video_path # NULL

\* C5 (stage 2 only after stage 1 completed): processed_video_path is written
\* by the one statement that sets processing_status = 'completed' and by no
\* other, so it records that the status has been set to completed.  A video's
\* compression_status differs from none only if that has happened, and every
\* CompressRawVideo job, queued or running, is for such a video.
C5_CompressionAfterProcessing ==
    LET Stage1Completed(v) ==
            v \in DOMAIN videos /\ videos[v].processed_video_path # NULL
    IN /\ \A v \in DOMAIN videos :
            videos[v].compression_status # "none" => Stage1Completed(v)
       /\ \A j \in DOMAIN jobs :
            jobs[j].message = CompressRawVideo => Stage1Completed(jobs[j].video_id)
       /\ \A r \in Runners : \A j \in DOMAIN tasks[r] :
            tasks[r][j].message = CompressRawVideo => Stage1Completed(tasks[r][j].video_id)

\* stage 2 has moved a video's compression_status away from none
C5_Witness ==
    \E v \in DOMAIN videos :
        /\ videos[v].compression_status # "none"
        /\ videos[v].processing_status = "completed"

\* C6 (chaining): every step of a ProcessRawVideoIntoStream handler leaves the
\* job table alone, except the step in which it returns success, which adds
\* exactly one job: CompressRawVideo for the same video, Queued, scheduled one
\* day after the clock.  So a successful run has enqueued exactly that job and
\* a failed run none.
C6_Chaining ==
    [][\A r \in Runners : \A j \in DOMAIN tasks[r] :
        (/\ tasks[r][j].message = ProcessRawVideoIntoStream
         /\ j \in DOMAIN tasks'[r]
         /\ tasks'[r][j].pc # tasks[r][j].pc) =>
            IF tasks'[r][j].pc = "returned_Ok"
            THEN /\ next_id \notin DOMAIN jobs
                 /\ DOMAIN jobs' = DOMAIN jobs \cup {next_id}
                 /\ jobs'[next_id] =
                        [message |-> CompressRawVideo,
                         video_id |-> tasks[r][j].video_id,
                         status |-> "Queued",
                         scheduled_time |-> Some(now + days(1))]
                 /\ \A k \in DOMAIN jobs : jobs'[k] = jobs[k]
            ELSE jobs' = jobs]_vars

\* a stage-1 handler has just returned success and its chained job waits
C6_Witness ==
    \E r \in Runners : \E j \in DOMAIN tasks[r] :
        /\ tasks[r][j].message = ProcessRawVideoIntoStream
        /\ tasks[r][j].pc = "returned_Ok"
        /\ \E k \in DOMAIN jobs :
            /\ jobs[k].message = CompressRawVideo
            /\ jobs[k].video_id = tasks[r][j].video_id
            /\ jobs[k].status = "Queued"
            /\ jobs[k].scheduled_time = Some(now + days(1))

\* C7 (unknown variant): the dispatch of a job whose message handle_job does
\* not name touches no video and no file and has handle_job return Ok at once;
\* the job's history is then pull, handle_job, Ok and one delete_job call,
\* nothing else and nothing twice; once delete_job took effect the job is in
\* the table no more, held by no runner, and no id that left the table comes
\* back.
C7_UnknownVariant ==
    /\ [](\A j \in JobIds :
            (Len(trace[j]) >= 2 /\ trace[j][2] = Handle(OtherMessage)) =>
                /\ trace[j] \in
                     {<<"pull", Handle(OtherMessage), "Ok">>,
                      <<"pull", Handle(OtherMessage), "Ok", "delete_job">>,
                      <<"pull", Handle(OtherMessage), "Ok", "delete_job_failed">>}
                /\ Last(trace[j]) = "delete_job" =>
                     j \notin DOMAIN jobs /\ \A r \in Runners : j \notin Held(r))
    /\ [][/\ \A j \in JobIds :
                (Len(trace[j]) < 2 /\ Len(trace'[j]) >= 2
                    /\ trace'[j][2] = Handle(OtherMessage)) =>
                        videos' = videos /\ raw_file' = raw_file
          /\ \A j \in JobIds :
                (j < next_id /\ j \notin DOMAIN jobs) => j \notin DOMAIN jobs']_vars

\* a job of an unknown variant went through one dispatch cycle and is gone
C7_Witness ==
    \E j \in JobIds :
        /\ trace[j] = <<"pull", Handle(OtherMessage), "Ok", "delete_job">>
        /\ j \notin DOMAIN jobs
        /\ \A r \in Runners : rpc[r] = "pull"

\* C8 (Failed is terminal): a job is Failed exactly when a fail_job call took
\* effect on it; that call is the last event of its history (no later pull,
\* handling or acknowledgment), no runner holds it, and no step changes or
\* removes a Failed row.
C8_FailedIsTerminal ==
    /\ [](\A j \in JobIds :
            /\ (j \in DOMAIN jobs /\ jobs[j].status = "Failed") <=>
                    Count(trace[j], "fail_job") > 0
            /\ Count(trace[j], "fail_job") > 0 =>
                    /\ Last(trace[j]) = "fail_job"
                    /\ Count(trace[j], "fail_job") = 1
                    /\ \A r \in Runners : j \notin Held(r))
    /\ [][\A j \in DOMAIN jobs : jobs[j].status = "Failed" =>
            j \in DOMAIN jobs' /\ jobs'[j] = jobs[j]]_vars

\* a job is Failed while its runner is back at pull and the clock has moved on
C8_Witness ==
    \E j \in DOMAIN jobs :
        /\ jobs[j].status = "Failed"
        /\ \A t \in jobs[j].scheduled_time : t < now
        /\ jobs[j].scheduled_time # None
        /\ \A r \in Runners : rpc[r] = "pull"

\* C9 (a pull error is transient): run_worker never leaves its loop; after a
\* pull error the runner holds no job and has no dispatch in flight, the step
\* that reports the error changes neither the job table nor any job's
\* history, and the runner's only next step takes it back to pull, again
\* without a dispatch or an acknowledgment.
C9_PullErrorTransient ==
    /\ [](\A r \in Runners :
            /\ rpc[r] \in {"pull", "backoff", "dispatch"}
            /\ rpc[r] = "backoff" =>
                  /\ batch[r] = <<>>
                  /\ DOMAIN tasks[r] = {}
                  /\ ENABLED run_worker_backoff(r))
    /\ [][\A r \in Runners :
            /\ (rpc[r] = "pull" /\ rpc'[r] # "pull") =>
                  /\ rpc'[r] \in {"dispatch", "backoff"}
                  /\ rpc'[r] = "backoff" => jobs' = jobs /\ trace' = trace
            /\ rpc[r] = "backoff" =>
                  /\ rpc'[r] \in {"backoff", "pull"}
                  /\ batch'[r] = <<>>
                  /\ DOMAIN tasks'[r] = {}
                  /\ rpc'[r] = "pull" => jobs' = jobs /\ trace' = trace]_vars

\* a pull failed while a job was there to be pulled
C9_Witness ==
    \E r \in Runners : rpc[r] = "backoff" /\ EligibleIds # {}

\* the events of a failed acknowledgment call
FailedAckEvents == {"delete_job_failed", "fail_job_failed"}

\* C10 (an acknowledgment error is isolated): a failed acknowledgment call is
\* the last event of its job's history (no retry); the step in which it fails
\* removes that one dispatch and leaves the job table, the runner's position
\* and every other job of the batch as they were; a runner that holds jobs is
\* dispatching; and every pulled job is held by a runner until it has had its
\* own acknowledgment call.
C10_AckErrorIsolated ==
    /\ [](/\ \A j \in JobIds :
                /\ Count(trace[j], "pull") > 0 =>
                      \/ \E r \in Runners : j \in Held(r)
                      \/ \E i \in 1..Len(trace[j]) : trace[j][i] \in AllAckEvents
                /\ \A i \in 1..Len(trace[j]) :
                      trace[j][i] \in FailedAckEvents =>
                          i = Len(trace[j]) /\ \A r \in Runners : j \notin Held(r)
          /\ \A r \in Runners : Held(r) # {} => rpc[r] = "dispatch")
    /\ [][\A r \in Runners : \A j \in DOMAIN tasks[r] :
            (Len(trace'[j]) = Len(trace[j]) + 1 /\ Last(trace'[j]) \in FailedAckEvents) =>
                /\ tasks'[r] = Restrict(tasks[r], DOMAIN tasks[r] \ {j})
                /\ batch' = batch
                /\ rpc' = rpc
                /\ jobs' = jobs]_vars

\* two jobs pushed at time 0 for the same moment were pulled as one batch by a
\* runner of concurrency 2; the acknowledgment of one failed, the other is
\* still being handled by that runner
C10_Witness ==
    /\ concurrency = 2
    /\ \E r \in Runners : \E j, k \in DOMAIN jobs :
        /\ j # k
        /\ jobs[j].scheduled_time = Some(days(1))
        /\ jobs[k].scheduled_time = Some(days(1))
        /\ Len(trace[j]) > 0 /\ Last(trace[j]) \in FailedAckEvents
        /\ k \in DOMAIN tasks[r]

\* the positions of run_worker's loop
LoopPositions == {"pull", "backoff", "dispatch"}

\* C11 (idempotent acknowledgment), with other callers deleting jobs:
\* delete_job on an id leaves a table that a second delete_job on that id does
\* not change, and on an id without a row it changes nothing; when a runner's
\* acknowledgment call meets an id whose row is gone, the call, succeeding or
\* failing, leaves the job table as it was, ends that one dispatch, and the
\* runner stays in its loop with a next step to take.
C11_IdempotentDelete ==
    /\ [](/\ \A id \in JobIds :
                LET once == delete_job(id)
                IN /\ delete_from(once, id) = once
                   /\ id \notin DOMAIN once
                   /\ id \notin DOMAIN jobs => once = jobs
                   /\ \A k \in DOMAIN jobs \ {id} : k \in DOMAIN once /\ once[k] = jobs[k]
          /\ \A r \in Runners : rpc[r] \in LoopPositions /\ ENABLED run_worker(r))
    /\ [][\A r \in Runners : \A j \in DOMAIN tasks[r] :
            (j \notin DOMAIN tasks'[r] /\ j \notin DOMAIN jobs) =>
                /\ jobs' = jobs
                /\ rpc' = rpc
                /\ batch' = batch
                /\ tasks'[r] = Restrict(tasks[r], DOMAIN tasks[r] \ {j})]_vars

\* a handler returned Ok for a job whose row another caller has deleted in
\* the meantime: the runner's delete_job is the second call on that id
C11_Witness ==
    \E r \in Runners : \E j \in DOMAIN tasks[r] :
        /\ tasks[r][j].pc = "returned_Ok"
        /\ ack_call(ResultOf(tasks[r][j].pc)) = "delete_job"
        /\ Count(trace[j], "pull") = 1
        /\ j \notin DOMAIN jobs
        /\ ENABLED run_worker_ack(r, j)

\* a dispatch whose handle_job call has not returned yet
Running(r, j) == j \in DOMAIN tasks[r] /\ tasks[r][j].pc \notin Returned

\* C12 (acknowledgment after the handler returned): while a job's handle_job
\* call is running, the job's row is there in Processing and its history has
\* no acknowledgment call; every step that removes a row, sets it to Failed or
\* adds an acknowledgment call to a job's history is taken by a runner whose
\* handle_job call for that job had returned before the step, with the result
\* as the last event of the job's history.
C12_AckAfterHandlerReturned ==
    /\ [](\A r \in Runners : \A j \in DOMAIN tasks[r] : Running(r, j) =>
            /\ j \in DOMAIN jobs
            /\ jobs[j].status = "Processing"
            /\ \A i \in 1..Len(trace[j]) : trace[j][i] \notin AllAckEvents)
    /\ [][\A j \in JobIds :
            (\/ j \in DOMAIN jobs /\ j \notin DOMAIN jobs'
             \/ /\ j \in DOMAIN jobs /\ j \in DOMAIN jobs'
                /\ jobs[j].status # "Failed" /\ jobs'[j].status = "Failed"
             \/ /\ Len(trace'[j]) > Len(trace[j])
                /\ Last(trace'[j]) \in AllAckEvents) =>
                    \E r \in Runners :
                        /\ j \in DOMAIN tasks[r]
                        /\ tasks[r][j].pc \in Returned
                        /\ Last(trace[j]) = ResultOf(tasks[r][j].pc)
                        /\ j \notin DOMAIN tasks'[r]]_vars

\* a ProcessRawVideoIntoStream job and the CompressRawVideo job it chained
\* were each deleted after their handlers had run through every step of their
\* stage and returned
C12_Witness ==
    \E j, k \in JobIds :
        /\ trace[j] = <<"pull", Handle(ProcessRawVideoIntoStream), "Ok", "delete_job">>
        /\ trace[k] = <<"pull", Handle(CompressRawVideo), "Ok", "delete_job">>
        /\ DOMAIN jobs = {}
        /\ \E v \in DOMAIN videos :
                /\ videos[v].processing_status = "completed"
                /\ videos[v].compression_status = "completed"
                /\ ~raw_file[v]

\* the job has had its acknowledgment call
Acknowledged(j) == \E i \in 1..Len(trace[j]) : trace[j][i] \in AllAckEvents

\* C13 (bounded-batch gating): a runner that is at pull, or waiting to retry
\* it, holds no job; the step in which its pull returns starts from an empty
\* batch with no dispatch in flight, and every job pulled before that step is
\* either held by another runner or has had its acknowledgment call; a runner
\* leaves the dispatch of a batch only for pull, and only with the batch
\* handed out and every dispatch over.
C13_BatchGating ==
    /\ [](\A r \in Runners : rpc[r] \in {"pull", "backoff"} => Held(r) = {})
    /\ [][\A r \in Runners :
            /\ PullStep(r) =>
                  /\ batch[r] = <<>>
                  /\ DOMAIN tasks[r] = {}
                  /\ \A j \in JobIds : Count(trace[j], "pull") > 0 =>
                        \/ Acknowledged(j)
                        \/ \E r2 \in Runners \ {r} : j \in Held(r2)
            /\ (rpc[r] = "dispatch" /\ rpc'[r] # "dispatch") =>
                  /\ rpc'[r] = "pull"
                  /\ batch[r] = <<>>
                  /\ DOMAIN tasks[r] = {}]_vars

\* a batch is over, its job acknowledged, every runner is at pull holding
\* nothing, and a job is there for the next pull
C13_Witness ==
    /\ \E j \in JobIds : Acknowledged(j)
    /\ \A r \in Runners : rpc[r] = "pull" /\ Held(r) = {}
    /\ EligibleIds # {}

\* C14 (bounded parallelism): a runner never holds more jobs, handed out or
\* not, than `concurrency`, and never has more dispatches in flight than that;
\* a pull returns at most `concurrency` jobs, and between two pulls the set of
\* jobs a runner holds only shrinks, so it never exceeds what the last pull
\* returned.
C14_BoundedParallelism ==
    /\ [](\A r \in Runners :
            /\ Cardinality(Held(r)) <= concurrency
            /\ Cardinality(DOMAIN tasks[r]) <= concurrency
            /\ Len(batch[r]) + Cardinality(DOMAIN tasks[r]) = Cardinality(Held(r)))
    /\ [][\A r \in Runners :
            IF PullStep(r)
            THEN /\ Len(batch'[r]) <= concurrency
                 /\ Held(r)' = Ids(batch'[r])
            ELSE Held(r)' \subseteq Held(r)]_vars

\* a runner of concurrency 2 has two dispatches in flight at once
C14_Witness ==
    /\ concurrency = 2
    /\ \E r \in Runners : Cardinality(DOMAIN tasks[r]) = 2

\* C15 (stage 2 ends in a terminal status), as claimed: no CompressRawVideo
\* handler that has returned leaves its video at compression_status =
\* compressing.
C15_Stage2TerminalStatus ==
    \A r \in Runners : \A j \in DOMAIN tasks[r] :
        (/\ tasks[r][j].message = CompressRawVideo
         /\ tasks[r][j].pc \in Returned
         /\ tasks[r][j].video_id \in DOMAIN videos) =>
            videos[tasks[r][j].video_id].compression_status # "compressing"

\* the jobs for which a ProcessRawVideoIntoStream handler was ever started
Stage1Started ==
    {j \in JobIds : \E i \in 1..Len(trace[j]) :
        trace[j][i] = Handle(ProcessRawVideoIntoStream)}

\* C16 (a stage-1 failure does not roll back): the first status write sets
\* processing_status = processing on the video's row, if it has one; a
\* ProcessRawVideoIntoStream handler that fails after that write, at the row
\* lookup, the converter or the second status write, returns Err in a step
\* that changes no video, no file and no job; as long as no other stage-1
\* handler ran for the video, the row is then at processing with no
\* processed_video_path; the runner's acknowledgment call for the job is
\* fail_job, and once it took effect the job is Failed.
C16_Stage1FailureNoRollback ==
    /\ [](\A r \in Runners : \A j \in DOMAIN tasks[r] :
            LET v == tasks[r][j].video_id
            IN (/\ tasks[r][j].message = ProcessRawVideoIntoStream
                /\ tasks[r][j].pc \in {"s1_convert", "s1_complete"}
                /\ Stage1Started = {j}
                /\ v \in DOMAIN videos) =>
                    /\ videos[v].processing_status = "processing"
                    /\ videos[v].processed_video_path = NULL)
    /\ [](\A j \in JobIds :
            (Len(trace[j]) >= 3 /\ trace[j][2] = Handle(ProcessRawVideoIntoStream)
                /\ trace[j][3] = "Err") =>
                    /\ Len(trace[j]) = 3 =>
                            \E r \in Runners : At(r, j, "returned_Err")
                    /\ Len(trace[j]) > 3 =>
                            /\ trace[j][4] \in {"fail_job", "fail_job_failed"}
                            /\ trace[j][4] = "fail_job" =>
                                  j \in DOMAIN jobs /\ jobs[j].status = "Failed")
    /\ [][\A r \in Runners : \A j \in DOMAIN tasks[r] :
            LET v == tasks[r][j].video_id
            IN /\ (tasks[r][j].pc = "s1_mark" /\ tasks'[r][j].pc = "s1_convert"
                        /\ v \in DOMAIN videos) =>
                      videos'[v].processing_status = "processing"
               /\ (tasks[r][j].pc \in {"s1_convert", "s1_complete"}
                        /\ j \in DOMAIN tasks'[r]
                        /\ tasks'[r][j].pc = "returned_Err") =>
                      videos' = videos /\ raw_file' = raw_file /\ jobs' = jobs]_vars

\* a stage-1 job whose handler failed is Failed, its video left at processing
\* without a processed_video_path, the raw file in place
C16_Witness ==
    \E j \in DOMAIN jobs : \E v \in DOMAIN videos :
        /\ jobs[j].message = ProcessRawVideoIntoStream
        /\ jobs[j].video_id = v
        /\ jobs[j].status = "Failed"
        /\ trace[j] = <<"pull", Handle(ProcessRawVideoIntoStream), "Err", "fail_job">>
        /\ videos[v].processing_status = "processing"
        /\ videos[v].processed_video_path = NULL
        /\ raw_file[v]

\* a job in Processing that no runner holds
Stranded(j) ==
    /\ j \in DOMAIN jobs
    /\ jobs[j].status = "Processing"
    /\ \A r \in Runners : j \notin Held(r)

\* C17 (no reclaim of stranded jobs), with runners that may be stopped and
\* started again: every job a pull returns was Queued before the call, never
\* Processing; and a job in Processing that no runner holds, its runner
\* stopped or its acknowledgment call failed, keeps its row as it is, is
\* held by no runner ever after, and nothing more is added to its history.
C17_NoReclaim ==
    [][/\ \A r \in Runners : PullStep(r) =>
            \A j \in Ids(batch'[r]) : j \in DOMAIN jobs /\ jobs[j].status = "Queued"
       /\ \A j \in JobIds : Stranded(j) =>
            /\ j \in DOMAIN jobs'
            /\ jobs'[j] = jobs[j]
            /\ \A r \in Runners : j \notin Held(r)'
            /\ trace'[j] = trace[j]]_vars

\* a job is in Processing with its handler never heard of again: the runner
\* was stopped in the middle of handle_job; every runner is back at pull and
\* the clock has moved on
C17_Witness ==
    \E j \in JobIds :
        /\ Stranded(j)
        /\ Len(trace[j]) = 2
        /\ \A r \in Runners : rpc[r] = "pull"
        /\ now = MaxTime

\* C18 (raw_video_path is null only after a completed compression), as
\* claimed: a video whose raw_video_path is null has compression_status =
\* completed and a compressed_video_path.
C18_RawPathNullOnlyWhenCompressed ==
    \A v \in DOMAIN videos :
        videos[v].raw_video_path = NULL =>
            /\ videos[v].compression_status = "completed"
            /\ videos[v].compressed_video_path # NULL

\* a CompressRawVideo job for the video is, or has been, in the queue
CompressionEnqueued(v) ==
    \/ \E k \in DOMAIN jobs :
            jobs[k].message = CompressRawVideo /\ jobs[k].video_id = v
    \/ \E k \in JobIds : \E i \in 1..Len(trace[k]) :
            trace[k][i] = Handle(CompressRawVideo)

\* C19 (a completed stage 1 is chained), as claimed: a
\* ProcessRawVideoIntoStream handler that has returned with its video at
\* processing_status = completed has returned Ok, with a CompressRawVideo job
\* for the video enqueued; and no stage-1 job is Failed while its video is at
\* completed without a compression job.
C19_CompletedStage1IsChained ==
    /\ \A r \in Runners : \A j \in DOMAIN tasks[r] :
            LET v == tasks[r][j].video_id
            IN (/\ tasks[r][j].message = ProcessRawVideoIntoStream
                /\ tasks[r][j].pc \in Returned
                /\ v \in DOMAIN videos
                /\ videos[v].processing_status = "completed") =>
                    /\ tasks[r][j].pc = "returned_Ok"
                    /\ CompressionEnqueued(v)
    /\ \A j \in DOMAIN jobs :
            LET v == jobs[j].video_id
            IN (/\ jobs[j].message = ProcessRawVideoIntoStream
                /\ jobs[j].status = "Failed"
                /\ v \in DOMAIN videos
                /\ videos[v].processing_status = "completed") =>
                    CompressionEnqueued(v)

\* the job is in the table, in Processing
InProcessing(j) == j \in DOMAIN jobs /\ jobs[j].status = "Processing"

\* the job's handling is over: its row is deleted or Failed
Settled(j) == j \notin DOMAIN jobs \/ jobs[j].status = "Failed"

\* the job is in the table and a pull may return it
Pullable(j) == j \in DOMAIN jobs /\ Eligible(j)

Pulled(j) == Count(trace[j], "pull") > 0

====
